---------------------------- MODULE Spec2Model ----------------------------
(***************************************************************************)
(* State-machine model of the data acquisition code of StonkzzReport:      *)
(*   backend/anti_gravity_vix.py        validator, consensus, VIX round    *)
(*   backend/scripts/robust_stock_fetcher.py  cascade fetch, cache, retry  *)
(*   backend/fetch_data_v3.py           request retry loop, option chain   *)
(*                                                                         *)
(* Numbers: a price or index value is a Python float that the adapters     *)
(* round to two decimals, so a float is modelled as a record               *)
(*   [nan |-> BOOLEAN, x |-> hundredths]                                   *)
(* with the IEEE rule that every ordered comparison with NaN is false.     *)
(* Wall-clock instants of the validator are minutes since a Monday 00:00.  *)
(***************************************************************************)
EXTENDS Integers, Sequences, FiniteSets, TLC

VARIABLES
    \* ---- validator under test (validate_vix_value / validate_freshness)
    vix_value,      \* the float handed to validate_vix_value
    range_out,      \* <<>> before the call, <<[ok, reason]>> after
    now,            \* datetime.now() in minutes since Monday 00:00
    timestamp,      \* the reading's timestamp handed to validate_freshness
    fresh_out,      \* <<>> before the call, <<[ok, age, max_age]>> after
    \* ---- one cross-validated round (get_india_vix and its caller)
    vpc,            \* position inside get_india_vix
    sources,        \* the `sources` dict: adapter key -> reading or None
    sources_in,     \* the dict as it was handed to cross_validate_sources
    vcalls,         \* number of calls of each fetch_vix_* in this round
    vresult,        \* the dict returned by get_india_vix, None before/if raised
    vix_file,       \* content of vix.txt, None while the file does not exist
    vlog,           \* how the latest fetch_vix_* call ended
    vresult2,       \* what a further cross_validate_sources(sources) returned
    \* ---- cascade requests (fetch_stock, fetch_nifty_data) and retry loops
    program,        \* the entry point this run drives
    pc,             \* position inside the running request
    ticker,         \* argument of fetch_stock
    attempt,        \* loop variable of the running retry loop
    log,            \* outcome of every call the running retry loop has made
    ret,            \* value the adapter that just finished returned
    response,       \* `response` of make_request_with_retries
    calls,          \* invocations of each adapter in this request
    returned_ok,    \* adapters that returned data in this request
    result,         \* what the request returned: [via, data]
    cache,          \* RobustStockFetcher.cache (in memory)
    cache_file,     \* stock_cache.json
    cookies_initialized,  \* NSEOptionChainFetcher.cookies_initialized
    file_state,     \* stock_cache.json on disk: absent, json, empty or garbled
    raw_data,       \* what NiftyOIAnalyzer.fetch_option_chain returned
    snapshot,       \* `snapshot` of fetch_pcr_oi
    outputs,        \* the files (and the history row) fetch_pcr_oi wrote
    waits,          \* seconds _fetch_yahoo slept before each retry of this request
    \* ---- RobustStockFetcher instances that share stock_cache.json
    inst_pc,        \* position of each instance
    inst_cache,     \* self.cache of each instance
    inst_key,       \* the ticker each instance is storing
    stored,         \* <<instance, ticker>> of every finished update_cache
    \* ---- scripts/market_utils.py under test
    close_out,      \* <<>> before get_last_market_close(), <<instant>> after
    mmi_value,      \* argument of interpret_mmi, in hundredths
    previous_mmi,   \* argument of interpret_mmi: None or Some(hundredths)
    mmi_out         \* <<>> before interpret_mmi, <<[zone, movement]>> after

valvars == <<vix_value, range_out, timestamp, fresh_out>>
vixvars == <<vpc, sources, sources_in, vcalls, vresult, vix_file, vlog, vresult2>>
casvars == <<program, pc, ticker, attempt, log, ret, response, calls,
             returned_ok, result, cache, cache_file, cookies_initialized,
             file_state, raw_data, snapshot, outputs, waits>>
pcrvars == <<raw_data, snapshot, outputs>>
storevars == <<inst_pc, inst_cache, inst_key, stored>>
mktvars == <<close_out, mmi_value, previous_mmi, mmi_out>>
vars == <<vix_value, range_out, now, timestamp, fresh_out,
          vpc, sources, sources_in, vcalls, vresult, vix_file, vlog, vresult2,
          program, pc, ticker, attempt, log, ret, response, calls,
          returned_ok, result, cache, cache_file, cookies_initialized,
          file_state, raw_data, snapshot, outputs, waits,
          inst_pc, inst_cache, inst_key, stored,
          close_out, mmi_value, previous_mmi, mmi_out>>

-----------------------------------------------------------------------------
(* Optional values: None is the empty tuple, Some(x) the one-element tuple *)
None == <<>>
Some(x) == <<x>>

(* Python floats *)
F(x) == [nan |-> FALSE, x |-> x]
NaN  == [nan |-> TRUE,  x |-> 0]
FLe(a, b) == ~a.nan /\ ~b.nan /\ a.x <= b.x
FLt(a, b) == ~a.nan /\ ~b.nan /\ a.x <  b.x
FGt(a, b) == ~a.nan /\ ~b.nan /\ a.x >  b.x

-----------------------------------------------------------------------------
(* AntiGravityVIXFetcher.__init__ *)
max_age_minutes    == 30
tolerance_percent  == 5
historical_vix_range == <<F(800), F(4000)>>     \* (8.0, 40.0)

(* validate_vix_value: three ordered comparisons, accept when none fires *)
validate_vix_value(v) ==
    IF FLe(v, F(0)) THEN [ok |-> FALSE, reason |-> "zero or negative"]
    ELSE IF FLt(v, historical_vix_range[1])
         THEN [ok |-> FALSE, reason |-> "unusually low"]
    ELSE IF FGt(v, historical_vix_range[2])
         THEN [ok |-> FALSE, reason |-> "unusually high"]
    ELSE [ok |-> TRUE, reason |-> "within normal range"]

-----------------------------------------------------------------------------
(* datetime fields of an instant *)
MinutesPerDay == 24 * 60
weekday(t) == (t \div MinutesPerDay) % 7       \* Monday = 0 ... Sunday = 6
hour(t)    == (t % MinutesPerDay) \div 60
MarketOpenHour == 9                             \* "if current_hour < 9:  # Before market open"

(* validate_freshness: the ceiling in force at `t`, as the code computes it. *)
(* A timezone-aware timestamp only loses its tzinfo (no conversion), so the  *)
(* age is the difference of the two wall-clock readings, here in minutes.    *)
max_age_at(t) ==
    LET base == IF hour(t) < MarketOpenHour THEN 16 * 60 ELSE max_age_minutes
    IN  IF weekday(t) >= 5 \/ (weekday(t) = 0 /\ hour(t) < MarketOpenHour)
        THEN 72 * 60
        ELSE base

validate_freshness_strict(ts, t) ==
    LET age_minutes == t - ts
        max_age     == max_age_at(t)
    IN  [ok |-> ~(age_minutes >= max_age), age |-> age_minutes, max_age |-> max_age]

validate_freshness(ts, t) ==
    LET age_minutes == t - ts
        max_age     == max_age_at(t)
    IN  [ok |-> ~(age_minutes > max_age), age |-> age_minutes, max_age |-> max_age]

-----------------------------------------------------------------------------
(* The `sources` dict of one cross-validated round *)
AdapterOrder == <<"yahoo_finance", "nse_official", "groww", "moneycontrol">>
Adapters == {AdapterOrder[i] : i \in 1..Len(AdapterOrder)}

(* a reading dict; `validated` and `num_sources` are the keys that           *)
(* cross_validate_sources adds (FALSE / 0 while the key is absent)           *)
Reading(v, c, ts, src, conf) ==
    [value |-> v, change |-> c, timestamp |-> ts, source |-> src,
     confidence |-> conf, validated |-> FALSE, num_sources |-> 0]

NoSources == [a \in Adapters |-> None]
NoCalls   == [a \in Adapters |-> 0]

(* how a call of an adapter ends: with a reading, with one of its explicit   *)
(* `return None`, or with an exception raised inside its `try`               *)
AdapterFailures == {"no_data", "network_error", "parse_error"}

caught_network_only(e) == e = "network_error"

(* `except Exception as e:` around the whole body of every adapter *)
caught(e) == e \in {"network_error", "parse_error"}

(* where the caller stands after the adapter ended with e *)
adapter_end(e, next) ==
    IF e \in {"reading", "no_data"} \/ caught(e) THEN next ELSE "crashed"

VixIdle ==
    /\ vpc = "off"
    /\ sources = NoSources
    /\ sources_in = NoSources
    /\ vcalls = NoCalls
    /\ vresult = None
    /\ vix_file = None
    /\ vlog = "pending"
    /\ vresult2 = None

-----------------------------------------------------------------------------
(* State of the cascade requests *)
Tickers == {"RELIANCE.NS", "TCS.NS"}
StockAdapters == <<"Yahoo Finance", "NSE Official", "Groww">>
NiftyAdapters == <<"nse", "groww", "moneycontrol">>
CascadeAdapters ==
    {StockAdapters[i] : i \in 1..3} \cup {NiftyAdapters[i] : i \in 1..3}

EmptyCache == [t \in Tickers |-> None]
NoCascadeCalls == [a \in CascadeAdapters |-> 0]
NoResult == [via |-> "pending", data |-> None]

(* what fetch_pcr_oi writes *)
OutputFiles == {"nifty_oi_analysis.json", "nifty_analysis.txt", "pcr.txt", "pcr_history"}
NoOutputs == [f \in OutputFiles |-> None]

CascadeIdle ==
    /\ program = "off"
    /\ pc = "idle"
    /\ ticker = "RELIANCE.NS"
    /\ attempt = 0
    /\ log = <<>>
    /\ ret = None
    /\ response = None
    /\ calls = NoCascadeCalls
    /\ returned_ok = {}
    /\ result = NoResult
    /\ cache = EmptyCache
    /\ cache_file = EmptyCache
    /\ cookies_initialized = FALSE
    /\ file_state = "absent"
    /\ raw_data = None
    /\ snapshot = None
    /\ outputs = NoOutputs
    /\ waits = <<>>

(* instances that share the cache file *)
Instances == {"A", "B"}

StoreIdle ==
    /\ inst_pc = [i \in Instances |-> "off"]
    /\ inst_cache = [i \in Instances |-> EmptyCache]
    /\ inst_key = [i \in Instances |-> "RELIANCE.NS"]
    /\ stored = {}

MarketIdle ==
    /\ close_out = None
    /\ mmi_value = 5000
    /\ previous_mmi = None
    /\ mmi_out = None

-----------------------------------------------------------------------------
(* Inputs of the validator *)
ValueMargin == 100      \* hundredths below 0 and above the upper limit
AgeMargin   == 1        \* minutes around each ceiling
CloseLookbackDays == 4  \* how far back a market close is taken as a timestamp

ValueInputs ==
    {NaN} \cup {F(x) : x \in (0 - ValueMargin)..(historical_vix_range[2].x + ValueMargin)}

WeekStart == 7 * MinutesPerDay
NowInputs == WeekStart..(2 * WeekStart - 1)    \* every minute of one week

MarketClose(d) == d * MinutesPerDay + 15 * 60 + 30   \* 15:30 of day d

AgeInputs ==
    {c + d : c \in {0, max_age_minutes, 16 * 60, 72 * 60}, d \in (0 - AgeMargin)..AgeMargin}

TimestampInputs(t) ==
    {t - a : a \in AgeInputs}
    \cup {MarketClose(d) : d \in {e \in 0..13 : /\ weekday(e * MinutesPerDay) < 5
                                               /\ MarketClose(e) <= t
                                               /\ t - MarketClose(e) <= CloseLookbackDays * MinutesPerDay}}

InitValidate ==
    /\ VixIdle
    /\ CascadeIdle
    /\ StoreIdle
    /\ MarketIdle
    /\ range_out = None
    /\ fresh_out = None
    /\ \/ /\ vix_value \in ValueInputs
          /\ now = WeekStart
          /\ timestamp = WeekStart
       \/ /\ vix_value = F(1450)
          /\ now \in NowInputs
          /\ timestamp \in TimestampInputs(now)

ApplyValidateVixValue ==
    /\ range_out = None
    /\ range_out' = Some(validate_vix_value(vix_value))
    /\ UNCHANGED <<vix_value, now, timestamp, fresh_out>>
    /\ UNCHANGED vixvars
    /\ UNCHANGED casvars
    /\ UNCHANGED storevars
    /\ UNCHANGED mktvars

ApplyValidateFreshness ==
    /\ fresh_out = None
    /\ fresh_out' = Some(validate_freshness(timestamp, now))
    /\ UNCHANGED <<vix_value, now, timestamp, range_out>>
    /\ UNCHANGED vixvars
    /\ UNCHANGED casvars
    /\ UNCHANGED storevars
    /\ UNCHANGED mktvars

NextValidate == ApplyValidateVixValue \/ ApplyValidateFreshness

SpecValidate == InitValidate /\ [][NextValidate]_vars

-----------------------------------------------------------------------------
(* The cross-validated round: get_india_vix *)

(* exact rational arithmetic on hundredths *)
Abs(i) == IF i < 0 THEN 0 - i ELSE i

RECURSIVE SumSeq(_)
SumSeq(q) == IF q = <<>> THEN 0 ELSE Head(q) + SumSeq(Tail(q))

RECURSIVE MaxSeq(_)
MaxSeq(q) ==
    IF Len(q) = 1 THEN q[1]
    ELSE LET m == MaxSeq(Tail(q)) IN IF Head(q) > m THEN Head(q) ELSE m

(* round(p / q, 2) for p/q in hundredths, q > 0.  The quotient is a binary   *)
(* float: away from a tie it rounds to the nearest hundredth, and at a       *)
(* decimal tie (x.xx5) the float lies on either side of it, so both          *)
(* neighbours are possible results.                                          *)
Round2(p, q) ==
    LET lo == p \div q
        r  == p - lo * q
    IN  IF 2 * r < q THEN {lo}
        ELSE IF 2 * r > q THEN {lo + 1}
        ELSE {lo, lo + 1}

(* lines 311-329: the readings that pass both checks, in dict order *)
valid_keys(srcs, t) ==
    SelectSeq(AdapterOrder,
              LAMBDA a : /\ srcs[a] # None
                         /\ validate_vix_value(srcs[a][1].value).ok
                         /\ validate_freshness(srcs[a][1].timestamp, t).ok)

valid_sources(srcs, t) ==
    LET ks == valid_keys(srcs, t) IN [i \in 1..Len(ks) |-> srcs[ks[i]][1]]

AnyNaN(vs) == \E i \in 1..Len(vs) : vs[i].value.nan
ValuesOf(vs) == [i \in 1..Len(vs) |-> vs[i].value.x]

(* statistics.median: <<numerator, denominator>> *)
median(xs) ==
    LET sorted == SortSeq(xs, LAMBDA a, b : a < b)
        n == Len(xs)
    IN  IF n % 2 = 1 THEN <<sorted[(n + 1) \div 2], 1>>
        ELSE <<sorted[n \div 2] + sorted[n \div 2 + 1], 2>>

(* lines 338-345: max_deviation > tolerance_percent, with                    *)
(* max_deviation = max(|v - mean| / mean * 100).  Exactly at the tolerance    *)
(* the float quotient is a rounding error above or below it, so both          *)
(* branches are possible there.                                               *)
deviation_cmp(xs) ==
    LET n == Len(xs)
        S == SumSeq(xs)
        d == MaxSeq([i \in 1..n |-> Abs(xs[i] * n - S)])
    IN  IF d * 100 > tolerance_percent * S THEN "above"
        ELSE IF d * 100 < tolerance_percent * S THEN "below"
        ELSE "equal"

use_median_always(xs) == {TRUE}

use_median(xs) ==
    CASE deviation_cmp(xs) = "above" -> {TRUE}
      [] deviation_cmp(xs) = "below" -> {FALSE}
      [] OTHER -> {TRUE, FALSE}

(* lines 336-353 and 368: the possible values of round(consensus_value, 2) *)
consensus_values(vs) ==
    IF AnyNaN(vs) THEN {NaN}
    ELSE LET xs == ValuesOf(vs)
             md == median(xs)
         IN  UNION { IF m THEN {F(r) : r \in Round2(md[1], md[2])}
                     ELSE {F(r) : r \in Round2(SumSeq(xs), Len(xs))}
                     : m \in use_median(xs) }

consensus_changes_zeros_too(vs) ==
    LET changes == [i \in 1..Len(vs) |-> vs[i].change]
        xs == [i \in 1..Len(changes) |-> changes[i].x]
    IN  IF changes # <<>>
        THEN IF \E i \in 1..Len(changes) : changes[i].nan
             THEN {NaN}
             ELSE {F(r) : r \in Round2(SumSeq(xs), Len(xs))}
        ELSE {F(0)}

(* lines 355-361 and 369: round(consensus_change, 2).  NaN != 0 is true, so  *)
(* a NaN change is kept, and statistics.mean of a list with a NaN is NaN.    *)
consensus_changes(vs) ==
    LET changes == SelectSeq([i \in 1..Len(vs) |-> vs[i].change],
                             LAMBDA c : c.nan \/ c.x # 0)
        xs == [i \in 1..Len(changes) |-> changes[i].x]
    IN  IF changes # <<>>
        THEN IF \E i \in 1..Len(changes) : changes[i].nan
             THEN {NaN}
             ELSE {F(r) : r \in Round2(SumSeq(xs), Len(xs))}
        ELSE {F(0)}

(* lines 363-366: max() keeps the first reading of the highest key *)
confidence_key(r) == IF r.confidence = "HIGH" THEN 2 ELSE 1

best_index_last(vs) ==
    CHOOSE i \in 1..Len(vs) :
        /\ \A j \in 1..Len(vs) : confidence_key(vs[j]) <= confidence_key(vs[i])
        /\ \A j \in (i + 1)..Len(vs) : confidence_key(vs[j]) < confidence_key(vs[i])

best_index(vs) ==
    CHOOSE i \in 1..Len(vs) :
        /\ \A j \in 1..Len(vs) : confidence_key(vs[j]) <= confidence_key(vs[i])
        /\ \A j \in 1..(i - 1) : confidence_key(vs[j]) < confidence_key(vs[i])

single_source_result_unmarked(r) == r

(* lines 375-378: the single valid reading, marked and counted *)
single_source_result(r) == [r EXCEPT !.validated = TRUE, !.num_sources = 1]

(* cross_validate_sources: every possible <<returned dict, sources after>>.  *)
(* The returned dict IS one of the dicts in `sources`, so the assignments    *)
(* of lines 368-371 and 376-377 show in `sources` as well.                   *)
cross_validate_sources(srcs, t) ==
    LET ks == valid_keys(srcs, t)
        vs == valid_sources(srcs, t)
    IN  IF ks = <<>> THEN {[result |-> None, sources |-> srcs]}
        ELSE IF Len(vs) > 1
        THEN LET b == best_index(vs)
             IN  {[result  |-> Some(res),
                   sources |-> [srcs EXCEPT ![ks[b]] = Some(res)]]
                  : res \in {[vs[b] EXCEPT !.value = cv, !.change = cc,
                                            !.validated = TRUE,
                                            !.num_sources = Len(vs)]
                             : cv \in consensus_values(vs),
                               cc \in consensus_changes(vs)}}
        ELSE LET res == single_source_result(vs[1])
             IN  {[result |-> Some(res), sources |-> [srcs EXCEPT ![ks[1]] = Some(res)]]}

(* Inputs of a round *)
VixValueInputs == {F(799), F(800), F(801), F(812), F(868), F(1200), F(1450)}
YahooValueInputs == VixValueInputs \cup {NaN}     \* float(hist['Close'].iloc[-1])
VixChangeInputs == {F(0), F(25)}
(* line 91: change = vix_value - vix_prev is NaN when the close is *)
YahooChangeInputs(v) == IF v.nan THEN {NaN} ELSE VixChangeInputs
MoneycontrolChangeInputs == {F(0), F(26)}
VixNowInputs ==
    {WeekStart + 2 * MinutesPerDay + 11 * 60,       \* Wednesday 11:00
     WeekStart + 5 * MinutesPerDay + 11 * 60,       \* Saturday 11:00
     WeekStart + 1 * MinutesPerDay + 8 * 60}        \* Tuesday 08:00
StaleBy == 1        \* minutes beyond the ceiling of a stale Yahoo row

(* hist.index[-1] of the daily history: 00:00 of the latest trading day *)
LastRowDate(t) ==
    LET d == t \div MinutesPerDay
        back == IF weekday(t) >= 5 THEN weekday(t) - 4
                ELSE IF hour(t) >= MarketOpenHour THEN 0
                ELSE IF weekday(t) = 0 THEN 3 ELSE 1
    IN  (d - back) * MinutesPerDay

(* what vix.txt holds from an earlier run: the dict an earlier round returned *)
SavedEarlier(t) ==
    [Reading(F(1450), F(0), t - 60, "NSE Official", "HIGH")
        EXCEPT !.validated = TRUE, !.num_sources = 1]

InitVix ==
    /\ CascadeIdle
    /\ StoreIdle
    /\ MarketIdle
    /\ vix_value = F(1450) /\ range_out = None
    /\ timestamp = WeekStart /\ fresh_out = None
    /\ now \in VixNowInputs
    /\ vpc = "yahoo"
    /\ sources = NoSources
    /\ sources_in = NoSources
    /\ vcalls = NoCalls
    /\ vresult = None
    /\ vix_file \in {None, Some(SavedEarlier(now))}
    /\ vlog = "pending"
    /\ vresult2 = None

(* line 393: fetch_vix_yahoo_finance; timestamp is the last row's date *)
FetchYahoo ==
    /\ vpc = "yahoo"
    /\ \/ /\ \E v \in YahooValueInputs :
             \E r \in {Some(Reading(v, c, ts, "Yahoo Finance", "HIGH")) :
                          c \in YahooChangeInputs(v),
                          ts \in {now, LastRowDate(now),
                                  now - (max_age_at(now) + StaleBy)}} :
                  sources' = [sources EXCEPT !["yahoo_finance"] = r]
          /\ vlog' = "reading"
          /\ vpc' = "nse"
       \/ \E e \in AdapterFailures :
             /\ sources' = [sources EXCEPT !["yahoo_finance"] = None]
             /\ vlog' = e
             /\ vpc' = adapter_end(e, "nse")
    /\ vcalls' = [vcalls EXCEPT !["yahoo_finance"] = @ + 1]
    /\ UNCHANGED <<sources_in, vresult, vix_file, now, vresult2>>
    /\ UNCHANGED valvars
    /\ UNCHANGED casvars
    /\ UNCHANGED storevars
    /\ UNCHANGED mktvars

(* line 394: fetch_vix_nse_official; timestamp is datetime.now() *)
FetchNse ==
    /\ vpc = "nse"
    /\ \/ /\ \E r \in {Some(Reading(v, c, now, "NSE Official", "HIGH")) :
                          v \in VixValueInputs, c \in VixChangeInputs} :
                  sources' = [sources EXCEPT !["nse_official"] = r]
          /\ vlog' = "reading"
          /\ vpc' = "groww"
       \/ \E e \in AdapterFailures :
             /\ sources' = [sources EXCEPT !["nse_official"] = None]
             /\ vlog' = e
             /\ vpc' = adapter_end(e, "groww")
    /\ vcalls' = [vcalls EXCEPT !["nse_official"] = @ + 1]
    /\ UNCHANGED <<sources_in, vresult, vix_file, now, vresult2>>
    /\ UNCHANGED valvars
    /\ UNCHANGED casvars
    /\ UNCHANGED storevars
    /\ UNCHANGED mktvars

FetchGroww_unless_reading ==
    /\ vpc = "groww"
    /\ IF \E a \in Adapters : sources[a] # None
       THEN /\ vpc' = "moneycontrol"
            /\ UNCHANGED <<sources, vlog, vcalls>>
       ELSE /\ \E e \in AdapterFailures :
                  /\ sources' = [sources EXCEPT !["groww"] = None]
                  /\ vlog' = e
                  /\ vpc' = adapter_end(e, "moneycontrol")
            /\ vcalls' = [vcalls EXCEPT !["groww"] = @ + 1]
    /\ UNCHANGED <<sources_in, vresult, vix_file, now, vresult2>>
    /\ UNCHANGED valvars
    /\ UNCHANGED casvars
    /\ UNCHANGED storevars
    /\ UNCHANGED mktvars

(* line 395: fetch_vix_groww returns None on every path *)
FetchGroww ==
    /\ vpc = "groww"
    /\ \E e \in AdapterFailures :
          /\ sources' = [sources EXCEPT !["groww"] = None]
          /\ vlog' = e
          /\ vpc' = adapter_end(e, "moneycontrol")
    /\ vcalls' = [vcalls EXCEPT !["groww"] = @ + 1]
    /\ UNCHANGED <<sources_in, vresult, vix_file, now, vresult2>>
    /\ UNCHANGED valvars
    /\ UNCHANGED casvars
    /\ UNCHANGED storevars
    /\ UNCHANGED mktvars

(* line 396: fetch_vix_moneycontrol; timestamp is datetime.now() *)
FetchMoneycontrol ==
    /\ vpc = "moneycontrol"
    /\ \/ /\ \E r \in {Some(Reading(v, c, now, "MoneyControl", "MEDIUM")) :
                          v \in VixValueInputs, c \in MoneycontrolChangeInputs} :
                  sources' = [sources EXCEPT !["moneycontrol"] = r]
          /\ vlog' = "reading"
          /\ vpc' = "validate"
       \/ \E e \in AdapterFailures :
             /\ sources' = [sources EXCEPT !["moneycontrol"] = None]
             /\ vlog' = e
             /\ vpc' = adapter_end(e, "validate")
    /\ vcalls' = [vcalls EXCEPT !["moneycontrol"] = @ + 1]
    /\ UNCHANGED <<sources_in, vresult, vix_file, now, vresult2>>
    /\ UNCHANGED valvars
    /\ UNCHANGED casvars
    /\ UNCHANGED storevars
    /\ UNCHANGED mktvars

CrossValidate_cache_fallback ==
    /\ vpc = "validate"
    /\ sources_in' = sources
    /\ \E o \in cross_validate_sources(sources, now) :
          /\ sources' = o.sources
          /\ vresult' = IF o.result = None THEN vix_file ELSE o.result
          /\ vpc' = IF o.result = None /\ vix_file = None THEN "raised" ELSE "done"
    /\ UNCHANGED <<vcalls, vix_file, now, vlog, vresult2>>
    /\ UNCHANGED valvars
    /\ UNCHANGED casvars
    /\ UNCHANGED storevars
    /\ UNCHANGED mktvars

(* lines 400-417: cross-validate, then return the result or raise *)
CrossValidate ==
    /\ vpc = "validate"
    /\ sources_in' = sources
    /\ \E o \in cross_validate_sources(sources, now) :
          /\ sources' = o.sources
          /\ vresult' = o.result
          /\ vpc' = IF o.result = None THEN "raised" ELSE "done"
    /\ UNCHANGED <<vcalls, vix_file, now, vlog, vresult2>>
    /\ UNCHANGED valvars
    /\ UNCHANGED casvars
    /\ UNCHANGED storevars
    /\ UNCHANGED mktvars

(* fetch_data_v3.py 566-570: the caller writes the result to vix.txt *)
SaveVix ==
    /\ vpc = "done"
    /\ vix_file' = vresult
    /\ vpc' = "saved"
    /\ UNCHANGED <<sources, sources_in, vcalls, vresult, now, vlog, vresult2>>
    /\ UNCHANGED valvars
    /\ UNCHANGED casvars
    /\ UNCHANGED storevars
    /\ UNCHANGED mktvars

NextVix ==
    \/ FetchYahoo
    \/ FetchNse
    \/ FetchGroww
    \/ FetchMoneycontrol
    \/ CrossValidate
    \/ SaveVix

SpecVix == InitVix /\ [][NextVix]_vars

(* cross_validate_sources called once more on the same `sources` dict, as a  *)
(* caller holding the dict can do; the dicts in it are the ones the first    *)
(* call left behind                                                          *)
CrossValidateAgain ==
    /\ vpc = "done"
    /\ vresult2 = None
    /\ \E o \in cross_validate_sources(sources, now) :
          /\ sources' = o.sources
          /\ vresult2' = o.result
    /\ UNCHANGED <<vpc, sources_in, vcalls, vresult, vix_file, vlog, now>>
    /\ UNCHANGED valvars
    /\ UNCHANGED casvars
    /\ UNCHANGED storevars
    /\ UNCHANGED mktvars

NextConsensus == NextVix \/ CrossValidateAgain

SpecConsensus == InitVix /\ [][NextConsensus]_vars

-----------------------------------------------------------------------------
(* Cascade mode: RobustStockFetcher.fetch_stock, its cache and its retry     *)
(* loop; NSEOptionChainFetcher.fetch_nifty_data; make_request_with_retries.  *)
(* In these runs `now` moves in steps of TickMinutes between requests.       *)

max_retries_one_more == 3 + 1
max_retries         == 3      \* RobustStockFetcher.__init__
request_max_retries == 3      \* make_request_with_retries(max_retries=3)
nse_attempts        == 3      \* _fetch_from_nse: for attempt in range(3)
cache_ttl_hours     == 24     \* get_cached_data: timedelta(hours=24)

TickMinutes == 12 * 60
MaxTicks    == 3

(* what one call of an upstream can do *)
YahooOutcomes   == {"ok", "timeout", "429", "404", "malformed"}
NseOutcomes     == {"ok", "malformed", "401", "404", "429", "timeout"}
RequestOutcomes == {"200", "401", "403", "404", "429", "500", "timeout"}

(* the error taxonomy of the design, for the outcomes above *)
ErrorClass(o) ==
    CASE o \in {"timeout", "500"} -> "Unreachable"
      [] o \in {"429", "403"}     -> "RateLimited"
      [] o = "401"                -> "AuthRequired"
      [] o = "404"                -> "NotFound"
      [] o = "malformed"          -> "MalformedPayload"
      [] OTHER                    -> "none"
TerminalClasses == {"AuthRequired", "MalformedPayload", "NotFound"}

(* the dicts the stock adapters build *)
PriceInputs == {F(285000), NaN}
Symbol(t) == IF t = "RELIANCE.NS" THEN "RELIANCE" ELSE "TCS"   \* ticker.replace('.NS', '')
YahooData(t) ==
    {[symbol |-> Symbol(t), lastPrice |-> p, pChange |-> F(150),
      yearHigh |-> F(300000), yearLow |-> F(250000)] : p \in PriceInputs}
NseData(t) ==
    {[symbol |-> Symbol(t), lastPrice |-> F(285000), pChange |-> F(150),
      yearHigh |-> F(300000), yearLow |-> F(250000)]}
GrowwData(t) ==
    {[symbol |-> Symbol(t), lastPrice |-> F(x), pChange |-> F(0),
      yearHigh |-> F((x * 12) \div 10), yearLow |-> F((x * 8) \div 10)] : x \in {285000}}

(* get_cached_data: the entry's data while the entry is younger than 24h *)
get_cached_data_no_ttl(c, t, tnow) ==
    IF c[t] # None THEN Some(c[t][1].data) ELSE None

get_cached_data_never(c, t, tnow) == None

get_cached_data(c, t, tnow) ==
    IF c[t] # None /\ tnow - c[t][1].timestamp < cache_ttl_hours * 60
    THEN Some(c[t][1].data)
    ELSE None

(* json.dump / json.load of the cache dict.  A float is written as its       *)
(* shortest repr, which parses back to the same float, and NaN as the        *)
(* literal NaN (allow_nan is on in both directions); strings are kept, and   *)
(* the timestamp is a string in memory already (isoformat).                  *)
json_float(f) ==
    IF f.nan THEN [literal |-> "NaN"] ELSE [literal |-> "number", hundredths |-> f.x]
python_float(j) ==
    IF j.literal = "NaN" THEN NaN ELSE F(j.hundredths)
json_entry(e) ==
    [data |-> [symbol |-> e.data.symbol,
               lastPrice |-> json_float(e.data.lastPrice),
               pChange |-> json_float(e.data.pChange),
               yearHigh |-> json_float(e.data.yearHigh),
               yearLow |-> json_float(e.data.yearLow)],
     timestamp |-> e.timestamp, source |-> e.source]
python_entry(j) ==
    [data |-> [symbol |-> j.data.symbol,
               lastPrice |-> python_float(j.data.lastPrice),
               pChange |-> python_float(j.data.pChange),
               yearHigh |-> python_float(j.data.yearHigh),
               yearLow |-> python_float(j.data.yearLow)],
     timestamp |-> j.timestamp, source |-> j.source]
json_dump(c) ==
    [t \in Tickers |-> IF c[t] = None THEN None ELSE Some(json_entry(c[t][1]))]
json_load(doc) ==
    [t \in Tickers |-> IF doc[t] = None THEN None ELSE Some(python_entry(doc[t][1]))]

load_cache_never(file, state) == EmptyCache

(* _load_cache: the file's dict; {} when the file is absent or does not parse *)
load_cache(file, state) == IF state = "json" THEN json_load(file) ELSE EmptyCache

update_cache_only_key(c, t, data, source, tnow) ==
    [EmptyCache EXCEPT ![t] = Some([data |-> data, timestamp |-> tnow, source |-> source])]

(* update_cache: overwrite the ticker's entry; the caller of this operator   *)
(* copies the dict to cache_file, which is what _save_cache does             *)
update_cache(c, t, data, source, tnow) ==
    [c EXCEPT ![t] = Some([data |-> data, timestamp |-> tnow, source |-> source])]

(* which outcomes end a retry loop at once *)
yahoo_returns(o)   == o = "ok"         \* every exception is caught and retried
nse_returns(o)     == o = "ok"         \* status 200 with 'records'
request_returns(o) == o = "200"        \* any other status / exception: next attempt

InitCascade ==
    /\ VixIdle
    /\ StoreIdle
    /\ MarketIdle
    /\ vix_value = F(1450) /\ range_out = None
    /\ timestamp = WeekStart /\ fresh_out = None
    /\ now = WeekStart
    /\ program \in {"fetch_stock", "fetch_nifty_data"}
    /\ pc = "idle"
    /\ ticker = "RELIANCE.NS"
    /\ attempt = 0
    /\ log = <<>>
    /\ ret = None
    /\ response = None
    /\ calls = NoCascadeCalls
    /\ returned_ok = {}
    /\ result = NoResult
    /\ cache = EmptyCache
    /\ cache_file = EmptyCache
    /\ cookies_initialized = FALSE
    /\ file_state = "absent"
    /\ raw_data = None
    /\ snapshot = None
    /\ outputs = NoOutputs
    /\ waits = <<>>

CascadeFrame ==
    /\ UNCHANGED valvars
    /\ UNCHANGED vixvars
    /\ UNCHANGED program
    /\ UNCHANGED pcrvars
    /\ UNCHANGED storevars
    /\ UNCHANGED mktvars

(* time passes between two requests *)
Tick ==
    /\ program = "fetch_stock"
    /\ pc \in {"idle", "done"}
    /\ now < WeekStart + MaxTicks * TickMinutes
    /\ now' = now + TickMinutes
    /\ pc' = "idle"
    /\ UNCHANGED <<ticker, attempt, log, ret, response, calls, returned_ok,
                   result, cache, cache_file, file_state, cookies_initialized>>
    /\ UNCHANGED waits
    /\ CascadeFrame

(* the process ends and a later run constructs RobustStockFetcher() anew:   *)
(* __init__ calls _load_cache                                                *)
Restart ==
    /\ program = "fetch_stock"
    /\ pc \in {"idle", "done"}
    /\ cache' = load_cache(cache_file, file_state)
    /\ pc' = "idle"
    /\ result' = NoResult
    /\ ret' = None
    /\ log' = <<>>
    /\ attempt' = 0
    /\ calls' = NoCascadeCalls
    /\ returned_ok' = {}
    /\ UNCHANGED <<now, ticker, response, cache_file, file_state, cookies_initialized>>
    /\ waits' = <<>>
    /\ CascadeFrame

(* fetch_stock(ticker) is called and enters _fetch_yahoo *)
StartFetchStock ==
    /\ program = "fetch_stock"
    /\ pc \in {"idle", "done"}
    /\ \E t \in Tickers : ticker' = t
    /\ pc' = "yahoo"
    /\ attempt' = 0
    /\ log' = <<>>
    /\ ret' = None
    /\ response' = None
    /\ calls' = [NoCascadeCalls EXCEPT !["Yahoo Finance"] = 1]
    /\ returned_ok' = {}
    /\ result' = NoResult
    /\ UNCHANGED <<now, cache, cache_file, file_state, cookies_initialized>>
    /\ waits' = <<>>
    /\ CascadeFrame

(* _fetch_yahoo lines 141-144: wait = 3 * (2 ** attempt), slept when attempt > 0 *)
backoff_wait(a) == 3 * 2 ^ a

(* _fetch_yahoo, one pass of `for attempt in range(self.max_retries)` *)
YahooAttempt ==
    /\ pc = "yahoo"
    /\ \E o \in YahooOutcomes :
          /\ log' = Append(log, o)
          /\ IF yahoo_returns(o)
             THEN /\ \E d \in YahooData(ticker) : ret' = Some(d)
                  /\ returned_ok' = returned_ok \cup {"Yahoo Finance"}
                  /\ attempt' = attempt
                  /\ pc' = "yahoo_ret"
             ELSE /\ ret' = None
                  /\ returned_ok' = returned_ok
                  /\ attempt' = attempt + 1
                  /\ pc' = IF attempt + 1 < max_retries THEN "yahoo" ELSE "yahoo_ret"
    /\ UNCHANGED <<now, ticker, response, calls, result, cache, cache_file, file_state,
                   cookies_initialized>>
    /\ waits' = IF attempt > 0 THEN Append(waits, backoff_wait(attempt)) ELSE waits
    /\ CascadeFrame

AfterYahoo_fallthrough ==
    /\ pc = "yahoo_ret"
    /\ pc' = "nse"
    /\ UNCHANGED <<result, cache, cache_file, file_state>>
    /\ log' = <<>>
    /\ UNCHANGED <<now, ticker, attempt, ret, response, calls, returned_ok,
                   cookies_initialized>>
    /\ UNCHANGED waits
    /\ CascadeFrame

(* fetch_stock lines 107-113: `if data:` after _fetch_yahoo *)
AfterYahoo ==
    /\ pc = "yahoo_ret"
    /\ IF ret # None
       THEN /\ cache' = update_cache(cache, ticker, ret[1], "Yahoo Finance", now)
            /\ cache_file' = json_dump(cache')
            /\ file_state' = "json"
            /\ result' = [via |-> "Yahoo Finance", data |-> ret]
            /\ pc' = "done"
       ELSE /\ pc' = "nse"
            /\ UNCHANGED <<result, cache, cache_file, file_state>>
    /\ log' = <<>>
    /\ UNCHANGED <<now, ticker, attempt, ret, response, calls, returned_ok,
                   cookies_initialized>>
    /\ UNCHANGED waits
    /\ CascadeFrame

(* fetch_stock lines 114-120: _fetch_nse and `if data:` *)
StockNse ==
    /\ pc = "nse"
    /\ calls' = [calls EXCEPT !["NSE Official"] = @ + 1]
    /\ \E o \in {"reading"} \cup AdapterFailures :
       \E r \in IF o = "reading" THEN {Some(d) : d \in NseData(ticker)} ELSE {None} :
          /\ log' = <<o>>
          /\ ret' = r
          /\ IF r # None
             THEN /\ returned_ok' = returned_ok \cup {"NSE Official"}
                  /\ cache' = update_cache(cache, ticker, r[1], "NSE Official", now)
                  /\ cache_file' = json_dump(cache')
                  /\ file_state' = "json"
                  /\ result' = [via |-> "NSE Official", data |-> r]
                  /\ pc' = "done"
             ELSE /\ pc' = adapter_end(o, "groww")
                  /\ UNCHANGED <<returned_ok, result, cache, cache_file, file_state>>
    /\ UNCHANGED <<now, ticker, attempt, response, cookies_initialized>>
    /\ UNCHANGED waits
    /\ CascadeFrame

(* fetch_stock lines 121-124: _fetch_groww and `if data:` *)
StockGroww ==
    /\ pc = "groww"
    /\ calls' = [calls EXCEPT !["Groww"] = @ + 1]
    /\ \E o \in {"reading"} \cup AdapterFailures :
       \E r \in IF o = "reading" THEN {Some(d) : d \in GrowwData(ticker)} ELSE {None} :
          /\ log' = <<o>>
          /\ ret' = r
          /\ IF r # None
             THEN /\ returned_ok' = returned_ok \cup {"Groww"}
                  /\ cache' = update_cache(cache, ticker, r[1], "Groww", now)
                  /\ cache_file' = json_dump(cache')
                  /\ file_state' = "json"
                  /\ result' = [via |-> "Groww", data |-> r]
                  /\ pc' = "done"
             ELSE /\ pc' = adapter_end(o, "cache")
                  /\ UNCHANGED <<returned_ok, result, cache, cache_file, file_state>>
    /\ UNCHANGED <<now, ticker, attempt, response, cookies_initialized>>
    /\ UNCHANGED waits
    /\ CascadeFrame

(* fetch_stock lines 126-132: cache fallback, else None *)
StockCacheFallback ==
    /\ pc = "cache"
    /\ LET cached == get_cached_data(cache, ticker, now)
       IN  result' = IF cached # None
                     THEN [via |-> "cache", data |-> cached]
                     ELSE [via |-> "none", data |-> None]
    /\ pc' = "done"
    /\ UNCHANGED <<now, ticker, attempt, log, ret, response, calls, returned_ok,
                   cache, cache_file, file_state, cookies_initialized>>
    /\ UNCHANGED waits
    /\ CascadeFrame

(* fetch_nifty_data is called and enters _fetch_from_nse (lines 253-257);   *)
(* _init_cookies sets the flag only when the option-chain page answers 200  *)
StartFetchNifty ==
    /\ program = "fetch_nifty_data"
    /\ pc = "idle"
    /\ pc' = "n_nse"
    /\ attempt' = 0
    /\ log' = <<>>
    /\ ret' = None
    /\ response' = None
    /\ calls' = [NoCascadeCalls EXCEPT !["nse"] = 1]
    /\ returned_ok' = {}
    /\ result' = NoResult
    /\ cookies_initialized' \in BOOLEAN
    /\ UNCHANGED <<now, ticker, cache, cache_file, file_state>>
    /\ UNCHANGED waits
    /\ CascadeFrame

(* _fetch_from_nse, one pass of `for attempt in range(3)` *)
NiftyNseAttempt ==
    /\ pc = "n_nse"
    /\ \E o \in NseOutcomes :
          /\ log' = Append(log, o)
          /\ IF nse_returns(o)
             THEN /\ ret' = Some([source |-> "nse"])
                  /\ returned_ok' = returned_ok \cup {"nse"}
                  /\ attempt' = attempt
                  /\ pc' = "n_nse_ret"
                  /\ UNCHANGED cookies_initialized
             ELSE /\ ret' = None
                  /\ returned_ok' = returned_ok
                  /\ attempt' = attempt + 1
                  /\ pc' = IF attempt + 1 < nse_attempts THEN "n_nse" ELSE "n_nse_ret"
                  /\ IF o = "401"
                     THEN \E refreshed \in BOOLEAN :
                             cookies_initialized' = (cookies_initialized \/ refreshed)
                     ELSE UNCHANGED cookies_initialized
    /\ UNCHANGED <<now, ticker, response, calls, result, cache, cache_file, file_state>>
    /\ UNCHANGED waits
    /\ CascadeFrame

(* fetch_nifty_data lines 239-243 *)
AfterNiftyNse ==
    /\ pc = "n_nse_ret"
    /\ IF ret # None
       THEN /\ result' = [via |-> "nse", data |-> ret]
            /\ pc' = "done"
            /\ UNCHANGED <<calls, attempt>>
       ELSE /\ calls' = [calls EXCEPT !["groww"] = @ + 1]
            /\ pc' = "n_groww_req"
            /\ attempt' = 0
            /\ UNCHANGED result
    /\ log' = <<>>
    /\ response' = None
    /\ UNCHANGED <<now, ticker, ret, returned_ok, cache, cache_file, file_state, cookies_initialized>>
    /\ UNCHANGED waits
    /\ CascadeFrame

(* make_request_with_retries, one pass of `for attempt in range(max_retries)`; *)
(* an exception leaves `response` as the previous pass set it                  *)
RequestAttempt ==
    /\ pc \in {"n_groww_req", "n_mc_req"}
    /\ \E o \in RequestOutcomes :
          /\ log' = Append(log, o)
          /\ response' = IF o = "timeout" THEN response ELSE Some(o)
          /\ IF request_returns(o)
             THEN /\ attempt' = attempt
                  /\ pc' = IF pc = "n_groww_req" THEN "n_groww_parse" ELSE "n_mc_parse"
             ELSE /\ attempt' = attempt + 1
                  /\ pc' = IF attempt + 1 < request_max_retries THEN pc
                           ELSE IF pc = "n_groww_req" THEN "n_groww_parse" ELSE "n_mc_parse"
    /\ UNCHANGED <<now, ticker, ret, calls, returned_ok, result, cache, cache_file, file_state,
                   cookies_initialized>>
    /\ UNCHANGED waits
    /\ CascadeFrame

(* _fetch_from_groww lines 288-374 and fetch_nifty_data lines 244-247 *)
NiftyGrowwParse ==
    /\ pc = "n_groww_parse"
    /\ \E r \in IF response = None \/ response # Some("200")
                THEN {None}
                ELSE {None, Some([source |-> "groww"])} :
          /\ ret' = r
          /\ IF r # None
             THEN /\ returned_ok' = returned_ok \cup {"groww"}
                  /\ result' = [via |-> "groww", data |-> r]
                  /\ pc' = "done"
                  /\ UNCHANGED <<calls, attempt>>
             ELSE /\ calls' = [calls EXCEPT !["moneycontrol"] = @ + 1]
                  /\ pc' = "n_mc_req"
                  /\ attempt' = 0
                  /\ UNCHANGED <<returned_ok, result>>
    /\ log' = <<>>
    /\ response' = None
    /\ UNCHANGED <<now, ticker, cache, cache_file, file_state, cookies_initialized>>
    /\ UNCHANGED waits
    /\ CascadeFrame

(* _fetch_from_moneycontrol lines 390-444 and fetch_nifty_data lines 248-250 *)
NiftyMoneycontrolParse ==
    /\ pc = "n_mc_parse"
    /\ \E r \in IF response = None \/ response # Some("200")
                THEN {None}
                ELSE {None, Some([source |-> "moneycontrol"])} :
          /\ ret' = r
          /\ IF r # None
             THEN /\ returned_ok' = returned_ok \cup {"moneycontrol"}
                  /\ result' = [via |-> "moneycontrol", data |-> r]
             ELSE /\ result' = [via |-> "none", data |-> None]
                  /\ UNCHANGED returned_ok
    /\ pc' = "done"
    /\ log' = <<>>
    /\ response' = None
    /\ UNCHANGED <<now, ticker, attempt, calls, cache, cache_file, file_state, cookies_initialized>>
    /\ UNCHANGED waits
    /\ CascadeFrame

(* ---- fetch_pcr_oi: what becomes of the option chain once fetch_nifty_data  *)
(* has returned.  0.01 is the smallest PCR save_pcr_snapshot stores; PCR     *)
(* values are in hundredths like every other float.                          *)
LivePcrInputs == {F(0), F(92)}
DemoPcr    == F(110)     \* from random open interest, always well above 0.01
DefaultPcr == F(85)      \* the literal of line 1575

(* parse_option_chain: the timestamp it gives a snapshot of each source *)
SnapshotTimestamp(src) ==
    CASE src = "yf"           -> "Live (YF)"
      [] src = "groww"        -> "Groww"
      [] src = "moneycontrol" -> "MC Scrape"
      [] OTHER                -> "records.timestamp"

(* generate_demo_snapshot *)
demo_snapshot ==
    [origin |-> "synthetic", timestamp |-> "Synthetic Data", pcr |-> DemoPcr]

(* a file that carries the snapshot's timestamp shows the synthetic label, *)
(* a file that carries only the numbers does not                           *)
WithTimestamp(snap) ==
    Some([origin |-> snap.origin, pcr |-> snap.pcr,
          labelled |-> snap.timestamp = "Synthetic Data"])
NumbersOnly(snap) ==
    Some([origin |-> snap.origin, pcr |-> snap.pcr, labelled |-> FALSE])

(* save_pcr_snapshot: the history row, unless the PCR is <= 0.01 *)
save_pcr_snapshot(outs, snap) ==
    IF FLe(snap.pcr, F(1)) THEN outs
    ELSE [outs EXCEPT !["pcr_history"] = WithTimestamp(snap)]

(* lines 1458-1493: the files of the `if snapshot:` branch *)
write_analysis(outs, snap) ==
    [outs EXCEPT !["nifty_oi_analysis.json"] = WithTimestamp(snap),
                 !["nifty_analysis.txt"] = NumbersOnly(snap),
                 !["pcr.txt"] = NumbersOnly(snap)]

(* lines 1537-1575: the recovery of the outer `except`, and its own `except` *)
write_recovery(outs, demo_ok) ==
    IF demo_ok
    THEN [outs EXCEPT !["nifty_oi_analysis.json"] = WithTimestamp(demo_snapshot),
                      !["pcr.txt"] = NumbersOnly(demo_snapshot)]
    ELSE [outs EXCEPT !["pcr.txt"] =
             Some([origin |-> "default", pcr |-> DefaultPcr, labelled |-> FALSE])]

(* NiftyOIAnalyzer.fetch_option_chain after fetch_nifty_data returned: its   *)
(* data, else the yfinance expiry list, else None                            *)
FetchOptionChain ==
    /\ program = "fetch_nifty_data"
    /\ pc = "done"
    /\ raw_data' \in IF result.data # None THEN {result.data}
                     ELSE {None, Some([source |-> "yf"])}
    /\ pc' = "p_parse"
    /\ UNCHANGED <<now, ticker, attempt, log, ret, response, calls, returned_ok,
                   result, cache, cache_file, file_state, cookies_initialized,
                   snapshot, outputs>>
    /\ UNCHANGED <<valvars, vixvars, program, storevars, mktvars, waits>>

(* parse_option_chain: a snapshot, or None (no data, no expiry, exception) *)
ParseOptionChain ==
    /\ pc = "p_parse"
    /\ snapshot' \in
          IF raw_data = None THEN {None}
          ELSE {None} \cup
               {Some([origin |-> "live",
                      timestamp |-> SnapshotTimestamp(raw_data[1].source),
                      pcr |-> x]) : x \in LivePcrInputs}
    /\ pc' = "p_snapshot"
    /\ UNCHANGED <<now, ticker, attempt, log, ret, response, calls, returned_ok,
                   result, cache, cache_file, file_state, cookies_initialized,
                   raw_data, outputs>>
    /\ UNCHANGED <<valvars, vixvars, program, storevars, mktvars, waits>>

(* fetch_pcr_oi lines 1440-1575.  generate_demo_snapshot raises when the     *)
(* spot it falls back to is NaN (round(nan)); generate_oi_analysis raises    *)
(* on a snapshot without strikes (max of an empty list).                     *)
PcrOi ==
    /\ pc = "p_snapshot"
    /\ \E demo_ok \in BOOLEAN, analysis_ok \in BOOLEAN, recovery_ok \in BOOLEAN :
          outputs' =
             IF snapshot = None
             THEN IF demo_ok
                  THEN write_analysis(save_pcr_snapshot(outputs, demo_snapshot),
                                      demo_snapshot)
                  ELSE write_recovery(outputs, recovery_ok)
             ELSE IF analysis_ok
                  THEN write_analysis(save_pcr_snapshot(outputs, snapshot[1]),
                                      snapshot[1])
                  ELSE write_recovery(save_pcr_snapshot(outputs, snapshot[1]),
                                      recovery_ok)
    /\ pc' = "p_done"
    /\ UNCHANGED <<now, ticker, attempt, log, ret, response, calls, returned_ok,
                   result, cache, cache_file, file_state, cookies_initialized,
                   raw_data, snapshot>>
    /\ UNCHANGED <<valvars, vixvars, program, storevars, mktvars, waits>>

NextCascade ==
    \/ Tick
    \/ Restart
    \/ StartFetchStock
    \/ YahooAttempt
    \/ AfterYahoo
    \/ StockNse
    \/ StockGroww
    \/ StockCacheFallback
    \/ StartFetchNifty
    \/ NiftyNseAttempt
    \/ AfterNiftyNse
    \/ RequestAttempt
    \/ NiftyGrowwParse
    \/ NiftyMoneycontrolParse
    \/ FetchOptionChain
    \/ ParseOptionChain
    \/ PcrOi

SpecCascade == InitCascade /\ [][NextCascade]_vars

(* every source adapter under its caller: the cross-validated round and the  *)
(* cascade requests, each from its own initial state                         *)
InitAdapters == InitVix \/ InitCascade
NextAdapters == NextVix \/ NextCascade
SpecAdapters == InitAdapters /\ [][NextAdapters]_vars

-----------------------------------------------------------------------------
(* Two RobustStockFetcher instances (two runs of the fetch script that       *)
(* overlap) on one stock_cache.json.  An instance reads the file once, in    *)
(* __init__, and writes its whole in-memory dict back on every update_cache; *)
(* _save_cache is open(file, 'w'), which empties the file, then json.dump.   *)
(* Nothing locks the file.                                                   *)

(* the source through which each instance's requests succeed *)
InstanceSource(i) == IF i = "A" THEN "Yahoo Finance" ELSE "NSE Official"

InitStore ==
    /\ VixIdle
    /\ CascadeIdle
    /\ MarketIdle
    /\ vix_value = F(1450) /\ range_out = None
    /\ timestamp = WeekStart /\ fresh_out = None
    /\ now = WeekStart
    /\ inst_pc = [i \in Instances |-> "new"]
    /\ inst_cache = [i \in Instances |-> EmptyCache]
    /\ inst_key = [i \in Instances |-> "RELIANCE.NS"]
    /\ stored = {}

StoreFrame ==
    /\ UNCHANGED <<vix_value, range_out, now, timestamp, fresh_out>>
    /\ UNCHANGED vixvars
    /\ UNCHANGED <<program, pc, ticker, attempt, log, ret, response, calls,
                   returned_ok, result, cache, cookies_initialized,
                   raw_data, snapshot, outputs, waits>>
    /\ UNCHANGED mktvars

(* __init__: _load_cache *)
Construct(i) ==
    /\ inst_pc[i] = "new"
    /\ inst_cache' = [inst_cache EXCEPT ![i] = load_cache(cache_file, file_state)]
    /\ inst_pc' = [inst_pc EXCEPT ![i] = "ready"]
    /\ UNCHANGED <<inst_key, stored, cache_file, file_state>>
    /\ StoreFrame

(* update_cache lines 85-89: the entry is set in memory *)
UpdateCache(i) ==
    /\ inst_pc[i] = "ready"
    /\ \E t \in Tickers : \E d \in NseData(t) :
          /\ inst_cache' = [inst_cache EXCEPT
                               ![i] = update_cache(@, t, d, InstanceSource(i), now)]
          /\ inst_key' = [inst_key EXCEPT ![i] = t]
    /\ inst_pc' = [inst_pc EXCEPT ![i] = "save_open"]
    /\ UNCHANGED <<stored, cache_file, file_state>>
    /\ StoreFrame

(* _save_cache line 64: open(self.cache_file, 'w') truncates the file *)
SaveOpen(i) ==
    /\ inst_pc[i] = "save_open"
    /\ cache_file' = EmptyCache
    /\ file_state' = "empty"
    /\ inst_pc' = [inst_pc EXCEPT ![i] = "save_dump"]
    /\ UNCHANGED <<inst_cache, inst_key, stored>>
    /\ StoreFrame

(* _save_cache line 65: json.dump and close write the dict from offset 0.    *)
(* Over a file another instance has written since this one opened it, the    *)
(* result is this dict, followed by the tail of the other text if that was   *)
(* longer: valid JSON or not.                                                *)
SaveDump(i) ==
    /\ inst_pc[i] = "save_dump"
    /\ \E st \in IF file_state = "empty" THEN {"json"} ELSE {"json", "garbled"} :
          /\ file_state' = st
          /\ cache_file' = IF st = "json" THEN json_dump(inst_cache[i]) ELSE EmptyCache
    /\ stored' = stored \cup {<<i, inst_key[i]>>}
    /\ inst_pc' = [inst_pc EXCEPT ![i] = "ready"]
    /\ UNCHANGED <<inst_cache, inst_key>>
    /\ StoreFrame

(* the run ends; a later run constructs its fetcher anew *)
Exit(i) ==
    /\ inst_pc[i] = "ready"
    /\ inst_pc' = [inst_pc EXCEPT ![i] = "new"]
    /\ UNCHANGED <<inst_cache, inst_key, stored, cache_file, file_state>>
    /\ StoreFrame

NextStore ==
    \E i \in Instances :
        \/ Construct(i)
        \/ UpdateCache(i)
        \/ SaveOpen(i)
        \/ SaveDump(i)
        \/ Exit(i)

SpecStore == InitStore /\ [][NextStore]_vars

-----------------------------------------------------------------------------
(* scripts/market_utils.py.  Asia/Kolkata has no daylight saving, so the     *)
(* aware datetime arithmetic is plain wall-clock arithmetic on `now`.        *)
(* An MMI value is a float compared with whole numbers only; it is kept in   *)
(* hundredths.                                                               *)

minute(t) == t % 60

(* lines 26-27: while market_date.weekday() >= 5: market_date -= 1 day *)
RECURSIVE skip_weekend(_)
skip_weekend(d) ==
    IF weekday(d * MinutesPerDay) >= 5 THEN skip_weekend(d - 1) ELSE d

get_last_market_close_previous_day(t) ==
    LET today == t \div MinutesPerDay
        market_date ==
            IF weekday(t) >= 5 THEN today - (weekday(t) - 4)
            ELSE IF hour(t) < 15 \/ (hour(t) = 15 /\ minute(t) < 30)
                 THEN today - 1
            ELSE today
    IN  market_date * MinutesPerDay + 15 * 60 + 30

(* get_last_market_close, for now = t *)
get_last_market_close(t) ==
    LET today == t \div MinutesPerDay
        market_date ==
            IF weekday(t) >= 5 THEN today - (weekday(t) - 4)
            ELSE IF hour(t) < 15 \/ (hour(t) = 15 /\ minute(t) < 30)
                 THEN skip_weekend(today - 1)
            ELSE today
    IN  market_date * MinutesPerDay + 15 * 60 + 30

mmi_zone_boundary_below(v) ==
    IF v <= 3000 THEN "Extreme Fear"
    ELSE IF 3000 < v /\ v <= 5000 THEN "Fear"
    ELSE IF 5000 < v /\ v <= 5500 THEN "Neutral"
    ELSE IF 5500 < v /\ v <= 7000 THEN "Greed"
    ELSE "Extreme Greed"

(* interpret_mmi lines 45-59 *)
mmi_zone(v) ==
    IF v < 3000 THEN "Extreme Fear"
    ELSE IF 3000 <= v /\ v < 5000 THEN "Fear"
    ELSE IF 5000 <= v /\ v < 5500 THEN "Neutral"
    ELSE IF 5500 <= v /\ v < 7000 THEN "Greed"
    ELSE "Extreme Greed"

mmi_movement_above_five(v, prev) ==
    IF prev = None THEN ""
    ELSE LET delta == v - prev[1]
         IN  IF Abs(delta) > 500
             THEN (IF delta > 0 THEN "improved to" ELSE "declined to")
             ELSE IF delta = 0 THEN "remains in, unchanged"
             ELSE IF delta > 0 THEN "remains in, slight improvement"
             ELSE "remains in, slight decline"

(* interpret_mmi lines 61-72: the words of the movement clause, "" without   *)
(* a previous value.  The float subtraction is correctly rounded and 5 and 0 *)
(* are floats, so delta compares with them as the exact difference of the    *)
(* two values does.                                                          *)
mmi_movement(v, prev) ==
    IF prev = None THEN ""
    ELSE LET delta == v - prev[1]
         IN  IF Abs(delta) >= 500
             THEN (IF delta > 0 THEN "improved to" ELSE "declined to")
             ELSE IF delta = 0 THEN "remains in, unchanged"
             ELSE IF delta > 0 THEN "remains in, slight improvement"
             ELSE "remains in, slight decline"

(* interpret_mmi: the parts of the message it formats *)
interpret_mmi(v, prev) ==
    [zone |-> mmi_zone(v), mmi |-> v, movement |-> mmi_movement(v, prev)]

(* fetch_data_v3.is_holiday_or_weekend, on day numbers.  The Monday of the   *)
(* week the inputs cover is taken to be 26 January 2026 (Republic Day); no   *)
(* other date of holidays_2026 lies within two weeks of it.                  *)
holidays_2026 == {WeekStart \div MinutesPerDay}
is_holiday_or_weekend(check_date) ==
    IF check_date % 7 >= 5 THEN TRUE
    ELSE IF check_date \in holidays_2026 THEN TRUE
    ELSE FALSE

MmiMargin == 100     \* hundredths below 0 and above 100 that are tried as well
MmiInputs == (0 - MmiMargin)..(100 * 100 + MmiMargin)
PreviousMmiInputs(v) ==
    {None} \cup {Some(v + d) : d \in {0 - 500, 0 - 499, 0 - 100, 0, 100, 499, 500}}

InitMarket ==
    /\ VixIdle
    /\ CascadeIdle
    /\ StoreIdle
    /\ vix_value = F(1450) /\ range_out = None
    /\ timestamp = WeekStart /\ fresh_out = None
    /\ close_out = None
    /\ mmi_out = None
    /\ \/ /\ now \in NowInputs
          /\ mmi_value = 5000
          /\ previous_mmi = None
       \/ /\ now = WeekStart
          /\ mmi_value \in MmiInputs
          /\ previous_mmi \in PreviousMmiInputs(mmi_value)

MarketFrame ==
    /\ UNCHANGED <<vix_value, range_out, now, timestamp, fresh_out>>
    /\ UNCHANGED vixvars
    /\ UNCHANGED casvars
    /\ UNCHANGED storevars
    /\ UNCHANGED <<mmi_value, previous_mmi>>

ApplyGetLastMarketClose ==
    /\ close_out = None
    /\ close_out' = Some(get_last_market_close(now))
    /\ UNCHANGED mmi_out
    /\ MarketFrame

ApplyInterpretMmi ==
    /\ mmi_out = None
    /\ mmi_out' = Some(interpret_mmi(mmi_value, previous_mmi))
    /\ UNCHANGED close_out
    /\ MarketFrame

NextMarket == ApplyGetLastMarketClose \/ ApplyInterpretMmi

SpecMarket == InitMarket /\ [][NextMarket]_vars

-----------------------------------------------------------------------------
(* Properties of the validator *)

InInterval(v) == ~v.nan /\ 800 <= v.x /\ v.x <= 4000

\* C1: for every value v, validate_vix_value accepts v if and only if
\* 8.0 <= v <= 40.0; every value outside the interval is rejected.
C1_AcceptsIffInRange ==
    range_out # None => (range_out[1].ok <=> InInterval(vix_value))

MinuteOfDay(t) == t % (24 * 60)
DayOfWeek(t)   == (t \div (24 * 60)) % 7
ClaimCeiling(t) ==
    IF DayOfWeek(t) \in {5, 6} \/ (DayOfWeek(t) = 0 /\ MinuteOfDay(t) < 9 * 60)
    THEN 72 * 60
    ELSE IF MinuteOfDay(t) < 9 * 60 THEN 16 * 60 ELSE max_age_minutes

\* C2: validate_freshness rejects a reading exactly when its age exceeds the
\* ceiling in force at now (72h on Sat, Sun and Mon before 09:00; otherwise 16h
\* before 09:00; otherwise max_age_minutes); age equal to the ceiling passes.
C2_StaleIffOverCeiling ==
    fresh_out # None =>
        (fresh_out[1].ok <=> (now - timestamp <= ClaimCeiling(now)))

\* C2 witness: a reading exactly 72h old is checked on a Saturday and passes,
\* and one minute older would be the rejected case of the same instant.
C2_Witness ==
    /\ fresh_out # None
    /\ DayOfWeek(now) = 5
    /\ now - timestamp = 72 * 60
    /\ fresh_out[1].ok

(* The windows C3 speaks about *)
DayOf(t) == t \div (24 * 60)
IsFridayClose(ts) == \E d \in 0..13 : weekday(d * MinutesPerDay) = 4 /\ ts = MarketClose(d)
MondayOpenAfter(ts) == (DayOf(ts) + 3) * MinutesPerDay + MarketOpenHour * 60
InWeekendWindow(ts, t) == IsFridayClose(ts) /\ ts <= t /\ t < MondayOpenAfter(ts)
PrevTradingClose(t) ==
    IF weekday(t) = 0 THEN MarketClose(DayOf(t) - 3) ELSE MarketClose(DayOf(t) - 1)
InPreOpenWindow(ts, t) ==
    /\ weekday(t) < 5
    /\ hour(t) < MarketOpenHour
    /\ ts = PrevTradingClose(t)

\* C3: a reading captured at Friday's close passes the freshness check at
\* every instant from Friday close until Monday's open, and a reading captured
\* at the previous trading day's close passes at every pre-open instant of a
\* weekday.
C3_CloseReadingPassesUntilOpen ==
    (fresh_out # None /\ (InWeekendWindow(timestamp, now) \/ InPreOpenWindow(timestamp, now)))
        => fresh_out[1].ok

-----------------------------------------------------------------------------
(* Properties of the cross-validated round *)

RoundOver == vpc \in {"done", "saved", "raised"}
ValidIn == valid_sources(sources_in, now)    \* the readings that entered consensus

(* numerator of the largest |v - mean| and of the mean, both over Len(xs) *)
DevNum(xs) == MaxSeq([i \in 1..Len(xs) |-> Abs(xs[i] * Len(xs) - SumSeq(xs))])
WithinTolerance(xs) == DevNum(xs) * 100 <= tolerance_percent * SumSeq(xs)
BelowTolerance(xs)  == DevNum(xs) * 100 <  tolerance_percent * SumSeq(xs)
AboveTolerance(xs)  == DevNum(xs) * 100 >  tolerance_percent * SumSeq(xs)

IsMean(x, xs)   == x * Len(xs) = SumSeq(xs)
IsMedian(x, xs) == x * median(xs)[2] = median(xs)[1]
(* x is p/q rounded to the nearest hundredth (either neighbour at a tie) *)
IsRounded(x, p, q) == 2 * Abs(x * q - p) <= q

\* C4 (as stated): with two or more valid readings the result is their mean
\* when the largest deviation from the mean is at most the tolerance and their
\* median when it is greater, and num_sources is the number of valid readings.
C4_MeanElseMedian ==
    (RoundOver /\ Len(ValidIn) >= 2 /\ ~AnyNaN(ValidIn)) =>
        LET xs == ValuesOf(ValidIn)
            x  == vresult[1].value.x
        IN  /\ WithinTolerance(xs) => IsMean(x, xs)
            /\ AboveTolerance(xs)  => IsMedian(x, xs)
            /\ vresult[1].num_sources = Len(ValidIn)

\* C4 (amended): with two or more valid readings the result is their mean
\* rounded to two decimals when the largest deviation is below the tolerance,
\* their median rounded to two decimals when it is above, one of the two when
\* it is exactly at the tolerance, and num_sources is the number of valid
\* readings.
C4_RoundedMeanElseMedian ==
    (RoundOver /\ Len(ValidIn) >= 2 /\ ~AnyNaN(ValidIn)) =>
        LET xs == ValuesOf(ValidIn)
            x  == vresult[1].value.x
            md == median(xs)
        IN  /\ ~vresult[1].value.nan
            /\ BelowTolerance(xs) => IsRounded(x, SumSeq(xs), Len(xs))
            /\ AboveTolerance(xs) => IsRounded(x, md[1], md[2])
            /\ \/ IsRounded(x, SumSeq(xs), Len(xs))
               \/ IsRounded(x, md[1], md[2])
            /\ vresult[1].num_sources = Len(ValidIn)

\* C4 witness: 8.00, 8.00 and 12.00 (the shape of [100,100,150]) deviate by
\* more than 5%, and the round returns the median 8.00 with num_sources 3.
C4_Witness ==
    /\ vpc = "done"
    /\ ValuesOf(ValidIn) = <<800, 800, 1200>>
    /\ vresult[1].value = F(800)
    /\ vresult[1].num_sources = 3

(* vix.txt as last-known-good entry, with the 24h time-to-live of the spec *)
FreshVixFile == vix_file # None /\ now - vix_file[1].timestamp <= 24 * 60

C11_SingleReadingVerbatim ==
    (RoundOver /\ Len(ValidIn) = 1) =>
        /\ vpc # "raised"
        /\ vresult # None
        /\ vresult[1].value = ValidIn[1].value
        /\ vresult[1].timestamp = ValidIn[1].timestamp
        /\ vresult[1].source = ValidIn[1].source
        /\ vresult[1].confidence = ValidIn[1].confidence
        /\ vresult[1].validated
        /\ vresult[1].num_sources = 1

\* C11 witness: NSE alone delivered a fresh 14.50 (Yahoo's row was stale,
\* MoneyControl's value out of range) and the round returned 14.50, HIGH,
\* validated, from one source.
C11_Witness ==
    /\ vpc = "done"
    /\ sources_in["yahoo_finance"] # None
    /\ sources_in["moneycontrol"] # None
    /\ Len(ValidIn) = 1
    /\ ValidIn[1].source = "NSE Official"
    /\ vresult[1].value = F(1450)
    /\ vresult[1].confidence = "HIGH"
    /\ vresult[1].validated
    /\ vresult[1].num_sources = 1

(* the tiers of the design: HIGH > MEDIUM > LOW *)
Tier(r) == CASE r.confidence = "HIGH" -> 3
             [] r.confidence = "MEDIUM" -> 2
             [] OTHER -> 1

C16_ReadingsUnchanged ==
    RoundOver =>
        \A a \in Adapters :
            sources_in[a] # None =>
                /\ sources[a] # None
                /\ sources[a][1].value = sources_in[a][1].value
                /\ sources[a][1].change = sources_in[a][1].change
                /\ sources[a][1].timestamp = sources_in[a][1].timestamp
                /\ sources[a][1].source = sources_in[a][1].source
                /\ sources[a][1].confidence = sources_in[a][1].confidence

(* the `sources` dict as the first call left it, rebuilt from the call's     *)
(* input and its result; and whether a call on a dict involves no rounding   *)
(* tie, so that its float result is known exactly                            *)
AfterFirst ==
    [a \in Adapters |->
        IF sources_in[a] # None /\ sources_in[a][1].source = vresult[1].source
        THEN vresult ELSE sources_in[a]]
TieFree(srcs) == Cardinality(cross_validate_sources(srcs, now)) = 1

\* C17: for a fixed collection of readings, tolerance and current time,
\* cross_validate_sources returns the same value on every invocation,
\* including a second invocation on the same readings after a first one
\* (stated for the readings whose consensus lies on no rounding tie).
C17_SameValueOnEveryInvocation ==
    (vresult2 # None /\ TieFree(sources_in) /\ TieFree(AfterFirst)) =>
        vresult2[1].value = vresult[1].value

(* the readings of the round that are present, within 8..40 and no older     *)
(* than the ceiling in force                                                 *)
PassedBoth(r) == InInterval(r.value) /\ now - r.timestamp <= ClaimCeiling(now)
PassedIn ==
    LET ks == SelectSeq(AdapterOrder,
                        LAMBDA a : sources_in[a] # None /\ PassedBoth(sources_in[a][1]))
    IN  [i \in 1..Len(ks) |-> sources_in[ks[i]][1]]

\* C23: every reading that contributes to the consensus value and to the
\* contributing-source count has passed both the range check and the
\* freshness check; a reading failing either check, or a missing reading, is
\* excluded from the mean, the median and the count.
C23_OnlyPassedContribute ==
    (RoundOver /\ vresult # None) =>
        LET xs == ValuesOf(PassedIn)
            md == median(xs)
            x  == vresult[1].value
        IN  /\ vresult[1].num_sources = Len(PassedIn)
            /\ ~x.nan
            /\ \/ IsRounded(x.x, SumSeq(xs), Len(xs))
               \/ IsRounded(x.x, md[1], md[2])

\* C24: in one round of get_india_vix every configured adapter is invoked
\* exactly once, whatever the other adapters returned; validation and
\* consensus start only after all adapter calls have completed; and an
\* adapter whose reading fails validation is not invoked again in the round.
C24_EveryAdapterOnce ==
    [][/\ \A a \in Adapters : vcalls'[a] <= 1
       /\ (vresult' # vresult \/ sources_in' # sources_in
              \/ (vpc # vpc' /\ vpc' \in {"done", "raised"}))
             => /\ \A a \in Adapters : vcalls[a] = 1
                /\ vcalls' = vcalls
       /\ RoundOver => vcalls' = vcalls]_vars

\* C24 witness: the round is over with one call of each adapter, although
\* Yahoo had delivered a reading before NSE, Groww and MoneyControl were
\* called, NSE returned nothing, and MoneyControl's reading failed the range
\* check.
C24_Witness ==
    /\ RoundOver
    /\ \A a \in Adapters : vcalls[a] = 1
    /\ sources_in["yahoo_finance"] # None
    /\ sources_in["nse_official"] = None
    /\ sources_in["moneycontrol"] # None
    /\ ~validate_vix_value(sources_in["moneycontrol"][1].value).ok

(* the contributors' secondary values that are not zero (NaN is not zero) *)
NonZeroChanges ==
    SelectSeq([i \in 1..Len(ValidIn) |-> ValidIn[i].change],
              LAMBDA c : c.nan \/ c.x # 0)
NonZeroChangeValues == [i \in 1..Len(NonZeroChanges) |-> NonZeroChanges[i].x]
AnyNaNChange == \E i \in 1..Len(NonZeroChanges) : NonZeroChanges[i].nan

\* C26 (as stated): with two or more valid readings the change of the result
\* is the mean of the contributors' non-zero changes, and 0 when every
\* contributor's change is zero.
C26_MeanOfNonZeroChanges ==
    (RoundOver /\ Len(ValidIn) >= 2 /\ ~AnyNaNChange) =>
        LET c == vresult[1].change
        IN  /\ ~c.nan
            /\ IF NonZeroChanges = <<>> THEN c.x = 0
               ELSE IsMean(c.x, NonZeroChangeValues)

\* C26 (amended): with two or more valid readings the change of the result
\* is the mean of the contributors' non-zero changes rounded to two decimals
\* (NaN when one of them is NaN), and 0 when every contributor's change is
\* zero.
C26_RoundedMeanOfNonZeroChanges ==
    (RoundOver /\ Len(ValidIn) >= 2) =>
        LET c == vresult[1].change
        IN  IF NonZeroChanges = <<>> THEN c = F(0)
            ELSE IF AnyNaNChange THEN c.nan
            ELSE /\ ~c.nan
                 /\ IsRounded(c.x, SumSeq(NonZeroChangeValues), Len(NonZeroChanges))

\* C26 witness: of three contributors one has change 0 and the others 0.25
\* and 0.26; the result's change is 0.25 or 0.26, the rounded mean of the two
\* non-zero changes.
C26_Witness ==
    /\ vpc = "done"
    /\ Len(ValidIn) = 3
    /\ NonZeroChangeValues = <<25, 26>>
    /\ vresult[1].change.x \in {25, 26}

\* C30: whenever cross_validate_sources returns a result, its value lies
\* between the smallest and the largest contributing reading value, and
\* therefore inside the plausible range every contributor passed (8 to 40).
C30_ValueWithinContributors ==
    (RoundOver /\ vresult # None) =>
        LET v == vresult[1].value
        IN  /\ \E i \in 1..Len(ValidIn) : FLe(ValidIn[i].value, v)
            /\ \E i \in 1..Len(ValidIn) : FLe(v, ValidIn[i].value)
            /\ InInterval(v)

-----------------------------------------------------------------------------
(* Properties of cascade mode *)

StockDone == program = "fetch_stock" /\ pc = "done"
AllLiveFailed ==
    /\ returned_ok = {}
    /\ \A i \in 1..3 : calls[StockAdapters[i]] = 1
EntryAge(t) == now - cache[t][1].timestamp

\* C5: when every live adapter fails for a ticker, fetch_stock returns the
\* cached value if the cache holds an entry for that ticker younger than the
\* TTL, and otherwise returns no data.
C5_CacheElseFailure ==
    (StockDone /\ returned_ok = {}) =>
        /\ AllLiveFailed
        /\ IF cache[ticker] # None /\ EntryAge(ticker) < 24 * 60
           THEN result = [via |-> "cache", data |-> Some(cache[ticker][1].data)]
           ELSE result = [via |-> "none", data |-> None]

\* C5 witness: all three adapters failed and the ticker's 12-hour-old entry
\* was returned.
C5_Witness ==
    /\ StockDone
    /\ AllLiveFailed
    /\ cache[ticker] # None
    /\ EntryAge(ticker) = 12 * 60
    /\ result.via = "cache"

\* C7: a cache entry whose age exceeds the 24h TTL is never returned, neither
\* by get_cached_data nor by fetch_stock, even when every live source failed.
C7_ExpiredNeverReturned ==
    \A t \in Tickers :
        (cache[t] # None /\ EntryAge(t) > 24 * 60) =>
            /\ get_cached_data(cache, t, now) = None
            /\ (StockDone /\ ticker = t /\ returned_ok = {}) =>
                    (result.via = "none" /\ result.data = None)

\* C7 witness: every live source failed while the ticker's entry is 36 hours
\* old, and the request returned no data.
C7_Witness ==
    /\ StockDone
    /\ AllLiveFailed
    /\ cache[ticker] # None
    /\ EntryAge(ticker) > 24 * 60
    /\ result.via = "none"

\* C8: once an adapter has returned data, no lower-priority adapter is invoked
\* in that request, in fetch_stock (Yahoo, NSE, Groww) and in fetch_nifty_data
\* (NSE, Groww, MoneyControl).
C8_NoLowerPriorityCall ==
    \A i \in 1..3 : \A j \in 1..3 :
        i < j =>
            /\ StockAdapters[i] \in returned_ok => calls[StockAdapters[j]] = 0
            /\ NiftyAdapters[i] \in returned_ok => calls[NiftyAdapters[j]] = 0

\* C8 witness: Yahoo returned data on its second attempt and the request ended
\* with neither NSE nor Groww called.
C8_Witness ==
    /\ StockDone
    /\ returned_ok = {"Yahoo Finance"}
    /\ attempt = 1
    /\ result.via = "Yahoo Finance"
    /\ calls["NSE Official"] = 0
    /\ calls["Groww"] = 0

LoopReturned == pc \in {"yahoo_ret", "n_nse_ret", "n_groww_parse", "n_mc_parse"}
GaveUp ==
    IF pc \in {"yahoo_ret", "n_nse_ret"} THEN ret = None
    ELSE response # Some("200")

\* C12: no value is fabricated silently: when no live source (and no cache)
\* yielded the option chain, every value fetch_pcr_oi writes is absent or
\* carries an explicit synthetic/demo label; no unlabelled default or
\* placeholder number is written as if it were real.
C12_NoSilentFabrication ==
    (pc = "p_done" /\ snapshot = None) =>
        \A f \in OutputFiles :
            outputs[f] # None => (outputs[f][1].origin = "live" \/ outputs[f][1].labelled)

StoreQuiescent == \A i \in Instances : inst_pc[i] \in {"new", "ready"}

\* C14: concurrent writes to the cache store are serialized: when two
\* instances sharing one cache file store readings in any interleaving, the
\* persisted store afterwards parses and contains an entry for every key
\* either of them stored (no lost update, no corrupted state).
C14_WritesSerialized ==
    (StoreQuiescent /\ stored # {}) =>
        /\ file_state = "json"
        /\ \A w \in stored : cache_file[w[2]] # None

\* C9: against an adapter that fails every call with an Unreachable error the
\* retry loop makes exactly max_attempts (3) calls, no more and no fewer, and
\* then gives up.
C9_ExactlyMaxAttempts ==
    /\ Len(log) <= 3
    /\ (LoopReturned /\ \A i \in 1..Len(log) : ErrorClass(log[i]) = "Unreachable") =>
            (Len(log) = 3 /\ GaveUp)

\* C9 witness: _fetch_yahoo returned None after three timeouts.
C9_Witness ==
    /\ pc = "yahoo_ret"
    /\ log = <<"timeout", "timeout", "timeout">>
    /\ ret = None

\* C10: after a call fails with a terminal error class (AuthRequired,
\* MalformedPayload, NotFound) the retry loop makes no further attempt; only
\* Unreachable and RateLimited failures are retried.
C10_TerminalNotRetried ==
    \A i \in 1..Len(log) :
        ErrorClass(log[i]) \in TerminalClasses => i = Len(log)

\* C25: when every attempt of make_request_with_retries fails, the value it
\* returns reflects the outcome of the final attempt, never the response of
\* an earlier attempt that was followed by a different failure.
C25_ReturnsLastOutcome ==
    (/\ pc \in {"n_groww_parse", "n_mc_parse"}
     /\ log # <<>>
     /\ \A i \in 1..Len(log) : log[i] # "200") =>
        response = IF log[Len(log)] = "timeout" THEN None ELSE Some(log[Len(log)])

\* C27: in _fetch_yahoo the wait before the k-th retry (k = 1, 2, ...)
\* follows the documented exponential schedule 3s, 6s, 12s, that is
\* 3 * 2^(k-1) seconds, starting at the base delay of 3 seconds.
C27_BackoffSchedule ==
    \A k \in 1..Len(waits) : waits[k] = 3 * 2 ^ (k - 1)

(* what any plausible-range check min <= price <= max needs of a reading *)
PlausiblePrice(d) == ~d.lastPrice.nan /\ d.lastPrice.x > 0

\* C22: in cascade mode a reading is returned to the caller, and written to
\* the cache, only if it passed validation (plausible range and freshness); a
\* reading of adapter N that fails validation is not returned and adapter N+1
\* is tried instead.
C22_OnlyValidatedReturned ==
    program = "fetch_stock" =>
        /\ (pc = "done" /\ result.via \in {"Yahoo Finance", "NSE Official", "Groww"})
               => PlausiblePrice(result.data[1])
        /\ \A t \in Tickers : cache[t] # None => PlausiblePrice(cache[t][1].data)

-----------------------------------------------------------------------------
(* Properties of the adapters under their callers *)

Raised(e) == e \in {"network_error", "parse_error"}
(* the adapter whose call get_india_vix has just finished *)
JustCalled ==
    CASE vpc = "nse"          -> "yahoo_finance"
      [] vpc = "groww"        -> "nse_official"
      [] vpc = "moneycontrol" -> "groww"
      [] OTHER                -> "moneycontrol"

\* C18: an ordinary network or parse failure inside a source adapter never
\* propagates as an exception to the orchestrator: the adapter returns no
\* reading and the orchestrator goes on with the remaining adapters (the
\* round reaches cross-validation with all four adapters called; the cascade
\* request moves to the next adapter and, all failing, ends with the cache or
\* with no data).
C18_AdapterFailureContained ==
    /\ vpc # "crashed"
    /\ pc # "crashed"
    /\ (vpc \in {"nse", "groww", "moneycontrol", "validate"} /\ Raised(vlog)) =>
            (sources[JustCalled] = None /\ vcalls[JustCalled] = 1)
    /\ RoundOver => \A a \in Adapters : vcalls[a] = 1
    /\ (program = "fetch_stock" /\ pc \in {"groww", "cache"} /\ Raised(log[1])) =>
            (ret = None /\ returned_ok = {}
             /\ calls[IF pc = "groww" THEN "NSE Official" ELSE "Groww"] = 1)
    /\ (StockDone /\ log # <<>> /\ Raised(log[1])) =>
            (AllLiveFailed /\ result.via \in {"cache", "none"})

\* C18 witness: MoneyControl's adapter raised a parse error (and Yahoo's had
\* delivered nothing); all four adapters were called and the round returned
\* the NSE reading.
C18_Witness ==
    /\ vpc = "done"
    /\ vlog = "parse_error"
    /\ sources_in["yahoo_finance"] = None
    /\ sources_in["moneycontrol"] = None
    /\ \A a \in Adapters : vcalls[a] = 1
    /\ vresult[1].source = "NSE Official"

-----------------------------------------------------------------------------
(* Properties of market_utils *)

IsWeekendDay(d) == d % 7 \in {5, 6}

\* C19: get_last_market_close returns 15:30 on the preceding Friday when now
\* is a Saturday or Sunday, on the most recent earlier weekday when now is a
\* weekday before 15:30 (Monday morning gives Friday), and on today when now
\* is a weekday at or after 15:30.
C19_LastMarketClose ==
    close_out # None =>
        LET c == close_out[1]
            today == DayOf(now)
        IN  /\ MinuteOfDay(c) = 15 * 60 + 30
            /\ IF DayOfWeek(now) \in {5, 6}
               THEN DayOfWeek(c) = 4 /\ DayOf(c) < today /\ today - DayOf(c) <= 2
               ELSE IF MinuteOfDay(now) < 15 * 60 + 30
               THEN /\ DayOf(c) < today
                    /\ ~IsWeekendDay(DayOf(c))
                    /\ \A d \in (DayOf(c) + 1)..(today - 1) : IsWeekendDay(d)
               ELSE DayOf(c) = today

\* C19 witness: on a Monday at 10:00 the function returned Friday 15:30,
\* three days back.
C19_Witness ==
    /\ close_out # None
    /\ DayOfWeek(now) = 0
    /\ MinuteOfDay(now) = 10 * 60
    /\ close_out[1] = (DayOf(now) - 3) * 24 * 60 + 15 * 60 + 30

\* C20: interpret_mmi assigns exactly one zone to every MMI value: Extreme
\* Fear for v < 30, Fear for 30 <= v < 50, Neutral for 50 <= v < 55, Greed for
\* 55 <= v < 70 and Extreme Greed for v >= 70; each boundary value belongs to
\* the higher zone.
C20_ZoneOfEveryValue ==
    mmi_out # None =>
        LET v == mmi_value
            z == mmi_out[1].zone
        IN  /\ (v < 3000) <=> (z = "Extreme Fear")
            /\ (3000 <= v /\ v < 5000) <=> (z = "Fear")
            /\ (5000 <= v /\ v < 5500) <=> (z = "Neutral")
            /\ (5500 <= v /\ v < 7000) <=> (z = "Greed")
            /\ (v >= 7000) <=> (z = "Extreme Greed")

\* C20 witness: the boundary value 55.00 was interpreted and lies in Greed.
C20_Witness ==
    /\ mmi_out # None
    /\ mmi_value = 5500
    /\ mmi_out[1].zone = "Greed"

\* C21: with a previous MMI, interpret_mmi reports "improved to" or "declined
\* to", by the sign of the change, when the absolute change is at least 5,
\* and otherwise "slight improvement" for a positive, "slight decline" for a
\* negative and "unchanged" for a zero change; without a previous value it
\* reports no movement text.
C21_MovementText ==
    mmi_out # None =>
        LET m == mmi_out[1].movement
            change == mmi_value - previous_mmi[1]
        IN  IF previous_mmi = None THEN m = ""
            ELSE /\ (Abs(change) >= 500 /\ change > 0) => m = "improved to"
                 /\ (Abs(change) >= 500 /\ change < 0) => m = "declined to"
                 /\ (Abs(change) < 500 /\ change > 0)
                        => m = "remains in, slight improvement"
                 /\ (Abs(change) < 500 /\ change < 0)
                        => m = "remains in, slight decline"
                 /\ change = 0 => m = "remains in, unchanged"

\* C21 witness: the value fell by exactly 5.00 and the message says
\* "declined to".
C21_Witness ==
    /\ mmi_out # None
    /\ previous_mmi # None
    /\ mmi_value - previous_mmi[1] = 0 - 500
    /\ mmi_out[1].movement = "declined to"

\* C29: the date returned by get_last_market_close is always a trading day of
\* the market calendar: never a date that is_holiday_or_weekend classifies as
\* a weekend or a listed holiday, for any current instant.
C29_CloseOnTradingDay ==
    close_out # None => ~is_holiday_or_weekend(DayOf(close_out[1]))

=============================================================================
